---- MODULE Spec2Model ----
(***************************************************************************)
(* Model of the HTTP function inventory_stats                              *)
(* (azfunction_inventory/function_app.py).                                 *)
(*                                                                         *)
(* Text is modelled as a sequence of character codes, so that the order    *)
(* of two keys is the code-point order Python and pandas compare strings   *)
(* by.  A date cell is its three numeric fields in the order they are      *)
(* written in the CSV (MM-DD-YYYY); a parsed date is a Timestamp record;   *)
(* a formatted date is its fields in the order of "%Y-%m-%d".              *)
(***************************************************************************)
EXTENDS Integers, Sequences, FiniteSets, TLC

VARIABLES
    blob,        \* the CSV stored in Blob Storage
    pc,          \* per invocation: the place the handler has reached
    key,         \* per invocation: req.params.get("key")
    csv_bytes,   \* per invocation: the downloaded snapshot
    df,          \* per invocation: the DataFrame
    response     \* per invocation: the HttpResponse returned

vars == <<blob, pc, key, csv_bytes, df, response>>

-----------------------------------------------------------------------------
(* Bounds of the model *)

MaxRows == 3
NumInv == 2

-----------------------------------------------------------------------------
(* Program constants *)

Threshold == 100

Columns ==
    {"key", "key_name", "current_month", "status_date",
     "current_status_inventory", "sales"}

NoDataMessage == "No data found for given filters"

-----------------------------------------------------------------------------
(* Input values the model draws from *)

\* "B" < "a" < "b" in code-point order; "z" is in no dataset
KeyUpperB == <<66>>
KeyLowerA == <<97>>
KeyLowerB == <<98>>
KeyLowerZ == <<122>>

NameOne == <<110, 49>>
NameTwo == <<110, 50>>

\* "10", "11" and the non-numeric "nov"
MonthTen == <<49, 48>>
MonthEleven == <<49, 49>>
MonthBad == <<110, 111, 118>>

\* 12-31-2024 is earlier than 11-01-2025 but later as text
DateDec31 == <<12, 31, 2024>>
DateNov01 == <<11, 1, 2025>>
DateNov02 == <<11, 2, 2025>>
\* 2025-11-01, written in the wrong pattern
DateBad == <<2025, 11, 1>>

\* req.params.get("key"): None, or the text of the query parameter
NoKey == [given |-> FALSE, text |-> <<>>]
KeyParam(t) == [given |-> TRUE, text |-> t]
KeyParams ==
    {NoKey} \cup {KeyParam(t) : t \in {<<>>, KeyUpperB, KeyLowerA, KeyLowerB, KeyLowerZ}}

MkRow(k, n, m, d, inv, s) ==
    [key |-> k, key_name |-> n, current_month |-> m, status_date |-> d,
     current_status_inventory |-> inv, sales |-> s]

SeqsUpTo(S, n) == UNION {[1..k -> S] : k \in 0..n}

\* a CSV with the status_date column
Dated(rows) == [columns |-> Columns, rows |-> rows]

\* the same CSV without the status_date column
Undated(rows) ==
    [columns |-> Columns \ {"status_date"},
     rows |-> [i \in 1..Len(rows) |->
                 [f \in (DOMAIN rows[i]) \ {"status_date"} |-> rows[i][f]]]]

-----------------------------------------------------------------------------
(* Text and dates *)

Min2(a, b) == IF a < b THEN a ELSE b

\* Python's str < str
LexLess(s, t) ==
    \E k \in 0..Min2(Len(s), Len(t)) :
        /\ \A j \in 1..k : s[j] = t[j]
        /\ \/ k = Len(s) /\ k < Len(t)
           \/ k < Len(s) /\ k < Len(t) /\ s[k + 1] < t[k + 1]

IsDigit(c) == c \in 48..57

\* int(text) succeeds
IsDecimal(s) == Len(s) > 0 /\ \A j \in 1..Len(s) : IsDigit(s[j])

RECURSIVE DecimalValue(_)
DecimalValue(s) ==
    IF s = <<>> THEN 0
    ELSE 10 * DecimalValue(SubSeq(s, 1, Len(s) - 1)) + (s[Len(s)] - 48)

IsLeap(y) == (y % 4 = 0 /\ y % 100 # 0) \/ y % 400 = 0

DaysInMonth(m, y) ==
    IF m = 2 THEN (IF IsLeap(y) THEN 29 ELSE 28)
    ELSE IF m \in {4, 6, 9, 11} THEN 30 ELSE 31

\* the cell matches format="%m-%d-%Y"
ParsesAsDate(cell) ==
    /\ cell[1] \in 1..12
    /\ cell[3] \in 1..9999
    /\ cell[2] \in 1..DaysInMonth(cell[1], cell[3])

Timestamp(cell) == [year |-> cell[3], month |-> cell[1], day |-> cell[2]]

TsLess(a, b) ==
    \/ a.year < b.year
    \/ a.year = b.year /\ a.month < b.month
    \/ a.year = b.year /\ a.month = b.month /\ a.day < b.day

\* dt.strftime("%Y-%m-%d")
Strftime(ts) == <<ts.year, ts.month, ts.day>>

-----------------------------------------------------------------------------
(* Numbers *)

RECURSIVE Gcd(_, _)
Gcd(a, b) == IF b = 0 THEN a ELSE Gcd(b, a % b)

\* a float as the exact ratio it stands for
Fraction(n, d) ==
    LET g == Gcd(n, d) IN [num |-> n \div g, den |-> d \div g]

\* float(n)
Float(n) == Fraction(n, 1)

RECURSIVE SeriesSum(_)
SeriesSum(values) ==
    IF values = <<>> THEN 0 ELSE Head(values) + SeriesSum(Tail(values))

\* Series.mean(): the sum over the number of values
SeriesMean(values) == Fraction(SeriesSum(values), Len(values))

SeriesMin(values) ==
    CHOOSE v \in {values[j] : j \in 1..Len(values)} :
        \A j \in 1..Len(values) : v <= values[j]

SeriesMax(values) ==
    CHOOSE v \in {values[j] : j \in 1..Len(values)} :
        \A j \in 1..Len(values) : v >= values[j]

\* the threshold counted as below it
CountAtOrBelow(values) == Cardinality({j \in 1..Len(values) : values[j] <= Threshold})

\* (series < 100).sum()
CountBelow(values) == Cardinality({j \in 1..Len(values) : values[j] < Threshold})

-----------------------------------------------------------------------------
(* The DataFrame *)

Column(rows, f) == [j \in 1..Len(rows) |-> rows[j][f]]

\* pd.read_csv: the rows in file order under a RangeIndex
ReadCsv(bytes) ==
    [columns |-> bytes.columns,
     rows |-> [j \in 1..Len(bytes.rows) |->
                 [f \in (DOMAIN bytes.rows[j]) \cup {"index"} |->
                     IF f = "index" THEN j - 1 ELSE bytes.rows[j][f]]]]

\* errors="coerce": no cell is refused
DatesParseCoerce(d) == TRUE

\* pd.to_datetime(df["status_date"], format="%m-%d-%Y") raises on any cell
\* that does not match
DatesParse(d) ==
    \A j \in 1..Len(d.rows) : ParsesAsDate(d.rows[j].status_date)

ToDatetime(d) ==
    [columns |-> d.columns,
     rows |-> [j \in 1..Len(d.rows) |->
                 [d.rows[j] EXCEPT !.status_date = Timestamp(@)]]]

\* `if key:` is false for None and for the empty string
Truthy(k) == k.given /\ k.text # <<>>

\* df[df["key"] == key]
FilterByKey(d, k) ==
    IF Truthy(k)
    THEN [d EXCEPT !.rows = SelectSeq(@, LAMBDA r : r.key = k.text)]
    ELSE d

\* one group per row instead of one per distinct key
GroupKeysPerRow(rows) == Column(rows, "key")

\* groupby(sort=False): the distinct keys in first-seen order
GroupKeysFirstSeen(rows) ==
    LET firsts == {j \in 1..Len(rows) : \A h \in 1..(j - 1) : rows[h].key # rows[j].key}
    IN  [p \in 1..Cardinality(firsts) |->
            rows[CHOOSE j \in firsts : Cardinality({h \in firsts : h < j}) = p - 1].key]

\* df.groupby("key") iterates the distinct keys in ascending order
GroupKeys(rows) ==
    LET ks == {rows[j].key : j \in 1..Len(rows)}
    IN  [p \in 1..Cardinality(ks) |->
            CHOOSE k \in ks : Cardinality({q \in ks : LexLess(q, k)}) = p - 1]

\* each group holds its rows in the frame's order
Group(rows, sku) == SelectSeq(rows, LAMBDA r : r.key = sku)

\* the orders sort_values may leave equal dates in: its default
\* kind="quicksort" is not a stable sort, so the order of ties is whatever
\* the build's sort produces.  prio ranks every row among the rows of its
\* key and date, the only rows the sort of a group can tie it with
TieOrders(d) ==
    LET rows == d.rows
        n == Len(rows)
        labels == {rows[j].index : j \in 1..n}
        ties == [j \in 1..n |->
                    {h \in 1..n : /\ rows[h].key = rows[j].key
                                  /\ rows[h].status_date = rows[j].status_date}]
        most == IF n = 0 THEN 0
                ELSE CHOOSE c \in 1..n :
                         /\ \E j \in 1..n : Cardinality(ties[j]) = c
                         /\ \A j \in 1..n : Cardinality(ties[j]) <= c
        ranks == {f \in [1..n -> 1..most] :
                     \A j \in 1..n :
                         /\ f[j] <= Cardinality(ties[j])
                         /\ \A h \in ties[j] : h # j => f[h] # f[j]}
    IN  IF "status_date" \notin d.columns
        THEN {[l \in labels |-> 1]}
        ELSE {[l \in labels |-> f[CHOOSE j \in 1..n : rows[j].index = l]] : f \in ranks}

\* the group left in the frame's order
SortValuesSkipped(group, prio) == group

\* group.sort_values("status_date")
SortValues(group, prio) ==
    LET n == Len(group)
        Before(a, b) ==
            \/ TsLess(a.status_date, b.status_date)
            \/ a.status_date = b.status_date /\ prio[a.index] < prio[b.index]
        Pos(r) == Cardinality({j \in 1..n : Before(group[j], r)}) + 1
    IN  [p \in 1..n |-> group[CHOOSE j \in 1..n : Pos(group[j]) = p]]

Raise(msg) == [raised |-> TRUE, error |-> msg]
Value(v) == [raised |-> FALSE, value |-> v]

\* iloc[-1]: the most recent row
LastRow(group) == group[Len(group)]

\* the sum over the number of distinct dates
AvgPerDistinctDate(group) ==
    Fraction(SeriesSum(Column(group, "sales")),
             Cardinality({group[j].status_date : j \in 1..Len(group)}))

\* group[...].iloc[0]
FirstRow(group) == group[1]

\* float(group["sales"].sum()) and float(group["sales"].mean())
TotalSales(group) == Float(SeriesSum(Column(group, "sales")))
AvgDailySales(group) == SeriesMean(Column(group, "sales"))

\* int((group["current_status_inventory"] < 100).sum())
DaysBelow100(group) == CountBelow(Column(group, "current_status_inventory"))

\* the records of group[[...]].assign(status_date=...).to_dict("records")
TimeSeries(sorted) ==
    [p \in 1..Len(sorted) |->
        [status_date |-> Strftime(sorted[p].status_date),
         current_status_inventory |-> sorted[p].current_status_inventory,
         sales |-> sorted[p].sales]]

\* the body of the loop over the groups
BuildItem(d, sku, prio) ==
    IF "status_date" \notin d.columns
    THEN Raise("'status_date'")   \* str(KeyError("status_date"))
    ELSE
      LET group == SortValues(Group(d.rows, sku), prio)
          inventory == Column(group, "current_status_inventory")
      IN  IF ~IsDecimal(FirstRow(group).current_month)
          THEN Raise("ValueError: invalid literal for int()")
          ELSE Value(
                 [key |-> sku,
                  key_name |-> FirstRow(group).key_name,
                  current_month |-> DecimalValue(FirstRow(group).current_month),
                  total_sales |-> TotalSales(group),
                  avg_daily_sales |-> AvgDailySales(group),
                  min_inventory |-> Float(SeriesMin(inventory)),
                  max_inventory |-> Float(SeriesMax(inventory)),
                  days_below_100 |-> DaysBelow100(group),
                  time_series |-> TimeSeries(group)])

HttpResponse(code, body) == [status_code |-> code, body |-> body]

ErrorResponse(msg) == HttpResponse(500, [error |-> msg])

\* from `if df.empty` to the return, and the except clause
BuildResponse(d, prio) ==
    IF d.rows = <<>>
    THEN HttpResponse(200, [items |-> <<>>, message |-> NoDataMessage])
    ELSE
      LET skus == GroupKeys(d.rows)
          built == [p \in 1..Len(skus) |-> BuildItem(d, skus[p], prio)]
          failed == {p \in 1..Len(skus) : built[p].raised}
      IN  IF failed # {}
          THEN ErrorResponse(built[CHOOSE p \in failed : \A q \in failed : p <= q].error)
          ELSE HttpResponse(200, [items |-> [p \in 1..Len(skus) |-> built[p].value]])

\* one invocation on its own
InventoryStats(bytes, k, prio) ==
    LET d == ReadCsv(bytes)
    IN  IF "status_date" \in d.columns /\ ~DatesParse(d)
        THEN ErrorResponse("ValueError: time data does not match format")
        ELSE BuildResponse(
               FilterByKey(IF "status_date" \in d.columns THEN ToDatetime(d) ELSE d, k),
               prio)

-----------------------------------------------------------------------------
(* The handler, one action per step; the locals of an invocation are its   *)
(* own entries of key, csv_bytes, df and response                          *)

NoBytes == [columns |-> {}, rows |-> <<>>]
NoFrame == [columns |-> {}, rows |-> <<>>]
NoResponse == HttpResponse(0, [pending |-> TRUE])

\* key = req.params.get("key")
Receive(i, k) ==
    /\ pc[i] = "idle"
    /\ pc' = [pc EXCEPT ![i] = "received"]
    /\ key' = [key EXCEPT ![i] = k]
    /\ UNCHANGED <<blob, csv_bytes, df, response>>

\* csv_bytes = blob_client.download_blob().readall(); df = pd.read_csv(...)
Download(i) ==
    /\ pc[i] = "received"
    /\ pc' = [pc EXCEPT ![i] = "downloaded"]
    /\ csv_bytes' = [csv_bytes EXCEPT ![i] = blob]
    /\ df' = [df EXCEPT ![i] = ReadCsv(blob)]
    /\ UNCHANGED <<blob, key, response>>

\* if "status_date" in df.columns: df["status_date"] = pd.to_datetime(...)
ParseDates(i) ==
    /\ pc[i] = "downloaded"
    /\ IF "status_date" \notin df[i].columns
       THEN /\ pc' = [pc EXCEPT ![i] = "parsed"]
            /\ UNCHANGED <<df, response>>
       ELSE IF DatesParse(df[i])
       THEN /\ pc' = [pc EXCEPT ![i] = "parsed"]
            /\ df' = [df EXCEPT ![i] = ToDatetime(@)]
            /\ UNCHANGED response
       ELSE /\ pc' = [pc EXCEPT ![i] = "done"]
            /\ response' = [response EXCEPT ![i] =
                   ErrorResponse("ValueError: time data does not match format")]
            /\ UNCHANGED df
    /\ UNCHANGED <<blob, key, csv_bytes>>

\* df held in a module-level global that every invocation writes
FilterShared(i) ==
    /\ pc[i] = "parsed"
    /\ pc' = [pc EXCEPT ![i] = "filtered"]
    /\ df' = [j \in DOMAIN df |-> FilterByKey(df[i], key[i])]
    /\ UNCHANGED <<blob, key, csv_bytes, response>>

\* if key: df = df[df["key"] == key]
Filter(i) ==
    /\ pc[i] = "parsed"
    /\ pc' = [pc EXCEPT ![i] = "filtered"]
    /\ df' = [df EXCEPT ![i] = FilterByKey(@, key[i])]
    /\ UNCHANGED <<blob, key, csv_bytes, response>>

\* the empty check, the loop over the groups and the return
Respond(i) ==
    /\ pc[i] = "filtered"
    /\ pc' = [pc EXCEPT ![i] = "done"]
    /\ \E prio \in TieOrders(df[i]) :
          response' = [response EXCEPT ![i] = BuildResponse(df[i], prio)]
    /\ UNCHANGED <<blob, key, csv_bytes, df>>

\* the response is sent and the invocation's locals are gone
Return(i) ==
    /\ pc[i] = "done"
    /\ pc' = [pc EXCEPT ![i] = "idle"]
    /\ key' = [key EXCEPT ![i] = NoKey]
    /\ csv_bytes' = [csv_bytes EXCEPT ![i] = NoBytes]
    /\ df' = [df EXCEPT ![i] = NoFrame]
    /\ response' = [response EXCEPT ![i] = NoResponse]
    /\ UNCHANGED blob

Next ==
    \/ \E i \in DOMAIN pc, k \in KeyParams : Receive(i, k)
    \/ \E i \in DOMAIN pc : Download(i)
    \/ \E i \in DOMAIN pc : ParseDates(i)
    \/ \E i \in DOMAIN pc : Filter(i)
    \/ \E i \in DOMAIN pc : Respond(i)
    \/ \E i \in DOMAIN pc : Return(i)

\* n invocations, none started, over one of the stored CSVs
InitWith(blobs, n) ==
    /\ blob \in blobs
    /\ pc = [i \in 1..n |-> "idle"]
    /\ key = [i \in 1..n |-> NoKey]
    /\ csv_bytes = [i \in 1..n |-> NoBytes]
    /\ df = [i \in 1..n |-> NoFrame]
    /\ response = [i \in 1..n |-> NoResponse]

-----------------------------------------------------------------------------
(* Specifications: one invocation over the CSVs a group of properties is   *)
(* about, and NumInv concurrent invocations                                *)

\* keys and dates vary, with and without the status_date column
RowsKeys ==
    {MkRow(k, NameOne, MonthEleven, d, 90, 5) :
        k \in {KeyUpperB, KeyLowerA, KeyLowerB}, d \in {DateNov01, DateNov02}}

BlobsKeys ==
    {Dated(rs) : rs \in SeqsUpTo(RowsKeys, MaxRows)}
        \cup {Undated(rs) : rs \in SeqsUpTo(RowsKeys, MaxRows)}

InitKeys == InitWith(BlobsKeys, 1)
SpecKeys == InitKeys /\ [][Next]_vars

\* keys, dates and sales vary: rows of one key may share a date
RowsSales ==
    {MkRow(k, NameOne, MonthEleven, d, 90, s) :
        k \in {KeyLowerA, KeyLowerB}, d \in {DateNov01, DateNov02}, s \in {3, 4}}

InitSales == InitWith({Dated(rs) : rs \in SeqsUpTo(RowsSales, MaxRows)}, 1)
SpecSales == InitSales /\ [][Next]_vars

\* keys and inventory levels around the threshold vary
RowsInventory ==
    {MkRow(k, NameOne, MonthEleven, DateNov01, inv, 5) :
        k \in {KeyLowerA, KeyLowerB},
        inv \in {Threshold - 1, Threshold, Threshold + 1}}

InitInventory == InitWith({Dated(rs) : rs \in SeqsUpTo(RowsInventory, MaxRows)}, 1)
SpecInventory == InitInventory /\ [][Next]_vars

\* keys and dates vary, and the rows of a key disagree on name and month;
\* a row's sales and inventory tell which of the two labellings it has
Labellings ==
    {[key_name |-> NameOne, current_month |-> MonthTen, inventory |-> 90, sales |-> 3],
     [key_name |-> NameTwo, current_month |-> MonthEleven, inventory |-> 110, sales |-> 4]}

RowsDates ==
    {MkRow(k, l.key_name, l.current_month, d, l.inventory, l.sales) :
        k \in {KeyLowerA, KeyLowerB}, d \in {DateDec31, DateNov01}, l \in Labellings}

InitDates == InitWith({Dated(rs) : rs \in SeqsUpTo(RowsDates, MaxRows)}, 1)
SpecDates == InitDates /\ [][Next]_vars

\* rows with a date or a month that does not parse
RowsBad ==
    {MkRow(k, NameOne, m, d, 90, 5) :
        k \in {KeyLowerA, KeyLowerB}, d \in {DateNov01, DateBad},
        m \in {MonthEleven, MonthBad}}

InitBad == InitWith({Dated(rs) : rs \in SeqsUpTo(RowsBad, MaxRows)}, 1)
SpecBad == InitBad /\ [][Next]_vars

\* NumInv concurrent invocations over a few stored CSVs: two keys out of
\* key order, a bad date, no rows, no status_date column
BlobsConc ==
    LET a == MkRow(KeyLowerA, NameOne, MonthEleven, DateNov01, 90, 5)
        b == MkRow(KeyLowerB, NameTwo, MonthEleven, DateNov02, 110, 3)
        x == MkRow(KeyLowerB, NameTwo, MonthEleven, DateBad, 110, 3)
    IN  {Dated(<<>>), Dated(<<b, a>>), Dated(<<b, a, b>>), Dated(<<a, x>>),
         Undated(<<b, a>>)}

InitConc == InitWith(BlobsConc, NumInv)
SpecConc == InitConc /\ [][Next]_vars

-----------------------------------------------------------------------------
(* What the properties speak of: the input of a finished invocation and    *)
(* the response it returned                                                *)

Done(i) == pc[i] = "done"
Succeeded(i) == Done(i) /\ response[i].status_code = 200
Failed(i) == Done(i) /\ response[i].status_code = 500

InputRows(i) == csv_bytes[i].rows
HasDateColumn(i) == "status_date" \in csv_bytes[i].columns

\* a filter key was supplied with the request
Filtered(i) == key[i].given /\ key[i].text # <<>>

\* the positions of the input rows that remain after filtering
Remaining(i) ==
    {j \in 1..Len(InputRows(i)) : Filtered(i) => InputRows(i)[j].key = key[i].text}

\* the positions of the remaining input rows of one key, in input order
RowsOf(i, sku) == {j \in Remaining(i) : InputRows(i)[j].key = sku}

Items(i) == response[i].body.items

-----------------------------------------------------------------------------
(* Grouping and filtering *)

\* C1: a successful response has as many items as there are distinct keys
\* among the rows that remain after filtering, and every such key is the
\* key of exactly one item
C1_OneItemPerKey ==
    \A i \in DOMAIN pc :
        Succeeded(i) =>
            LET keys == {InputRows(i)[j].key : j \in Remaining(i)}
            IN  /\ Len(Items(i)) = Cardinality(keys)
                /\ \A k \in keys :
                       Cardinality({p \in 1..Len(Items(i)) : Items(i)[p].key = k}) = 1

\* an unfiltered response over three rows of two keys
C1_Witness ==
    \E i \in DOMAIN pc :
        /\ Succeeded(i)
        /\ ~Filtered(i)
        /\ Len(InputRows(i)) = 3
        /\ Len(Items(i)) = 2

\* C2: the items of an unfiltered response are in strictly ascending
\* code-point order of key, whatever the order of the input rows
C2_ItemsAscendingByKey ==
    \A i \in DOMAIN pc :
        (Succeeded(i) /\ ~Filtered(i)) =>
            \A p \in 1..(Len(Items(i)) - 1) :
                LexLess(Items(i)[p].key, Items(i)[p + 1].key)

\* the rows arrive as "b", "a", "B" and the items leave as "B", "a", "b"
C2_Witness ==
    \E i \in DOMAIN pc :
        /\ Succeeded(i)
        /\ ~Filtered(i)
        /\ Column(InputRows(i), "key") = <<KeyLowerB, KeyLowerA, KeyUpperB>>
        /\ Column(Items(i), "key") = <<KeyUpperB, KeyLowerA, KeyLowerB>>

\* C3: with a filter key, a key some row has exactly yields one item of
\* that key, and a key no row has yields the empty success response
C3_FilterByKey ==
    \A i \in DOMAIN pc :
        (Done(i) /\ Filtered(i)) =>
            IF \E j \in 1..Len(InputRows(i)) : InputRows(i)[j].key = key[i].text
            THEN /\ response[i].status_code = 200
                 /\ Len(Items(i)) = 1
                 /\ Items(i)[1].key = key[i].text
            ELSE response[i] =
                     HttpResponse(200, [items |-> <<>>, message |-> NoDataMessage])

\* C7: without a status_date column the request succeeds and every time
\* series holds its group's rows in input order
C7_NoDateColumnSucceeds ==
    \A i \in DOMAIN pc :
        (Done(i) /\ ~HasDateColumn(i)) =>
            /\ response[i].status_code = 200
            /\ \A p \in 1..Len(Items(i)) :
                   LET ts == Items(i)[p].time_series
                       js == RowsOf(i, Items(i)[p].key)
                   IN  /\ Len(ts) = Cardinality(js)
                       /\ \A q \in 1..Len(ts) :
                              LET j == CHOOSE j \in js :
                                           Cardinality({h \in js : h < j}) = q - 1
                              IN  /\ ts[q].sales = InputRows(i)[j].sales
                                  /\ ts[q].current_status_inventory =
                                         InputRows(i)[j].current_status_inventory

-----------------------------------------------------------------------------
(* The KPIs of an item *)

RECURSIVE SalesOver(_, _)
SalesOver(rows, js) ==
    IF js = {} THEN 0
    ELSE LET j == CHOOSE j \in js : TRUE
         IN  rows[j].sales + SalesOver(rows, js \ {j})

\* C4: total_sales is the sum of sales over the rows of the item's group and
\* avg_daily_sales is that sum divided by the number of those rows
C4_TotalAndAverage ==
    \A i \in DOMAIN pc :
        Succeeded(i) =>
            \A p \in 1..Len(Items(i)) :
                LET item == Items(i)[p]
                    js == RowsOf(i, item.key)
                    total == SalesOver(InputRows(i), js)
                IN  /\ item.total_sales = [num |-> total, den |-> 1]
                    /\ item.avg_daily_sales.den > 0
                    /\ item.avg_daily_sales.num * Cardinality(js) =
                           total * item.avg_daily_sales.den

\* three rows of one key on two dates, sales 3 + 4 + 4: the mean is 11/3
C4_Witness ==
    \E i \in DOMAIN pc :
        /\ Succeeded(i)
        /\ Len(Items(i)) = 1
        /\ Len(Items(i)[1].time_series) = 3
        /\ Cardinality({InputRows(i)[j].status_date : j \in 1..3}) = 2
        /\ Items(i)[1].total_sales = [num |-> 11, den |-> 1]
        /\ Items(i)[1].avg_daily_sales = [num |-> 11, den |-> 3]

InventoryBelow(i, js) ==
    Cardinality({j \in js : InputRows(i)[j].current_status_inventory < 100})

\* C5 as stated: every item has a field days_below_threshold, the number of
\* rows of its group with an inventory strictly below 100
C5_DaysBelowThreshold ==
    \A i \in DOMAIN pc :
        Succeeded(i) =>
            \A p \in 1..Len(Items(i)) :
                /\ "days_below_threshold" \in DOMAIN Items(i)[p]
                /\ Items(i)[p].days_below_threshold =
                       InventoryBelow(i, RowsOf(i, Items(i)[p].key))

\* C5 as amended: the field is named days_below_100, and no field is named
\* days_below_threshold; its value is the number of rows of the group with
\* an inventory strictly below 100
C5_DaysBelow100 ==
    \A i \in DOMAIN pc :
        Succeeded(i) =>
            \A p \in 1..Len(Items(i)) :
                /\ "days_below_threshold" \notin DOMAIN Items(i)[p]
                /\ "days_below_100" \in DOMAIN Items(i)[p]
                /\ Items(i)[p].days_below_100 =
                       InventoryBelow(i, RowsOf(i, Items(i)[p].key))

\* a group with inventories 99, 100 and 101 counts one day
C5_Witness ==
    \E i \in DOMAIN pc :
        /\ Succeeded(i)
        /\ Len(Items(i)) = 1
        /\ {InputRows(i)[j].current_status_inventory : j \in RowsOf(i, Items(i)[1].key)}
               = {99, 100, 101}
        /\ Items(i)[1].days_below_100 = 1

-----------------------------------------------------------------------------
(* The time series of an item *)

\* a date cell of the input as the formatted date of the same day
IsoOf(cell) == <<cell[3], cell[1], cell[2]>>

IsoLess(a, b) ==
    \/ a[1] < b[1]
    \/ a[1] = b[1] /\ a[2] < b[2]
    \/ a[1] = b[1] /\ a[2] = b[2] /\ a[3] < b[3]

\* the time-series entry the input row j stands for
EntryOf(i, j) ==
    [status_date |-> IsoOf(InputRows(i)[j].status_date),
     current_status_inventory |-> InputRows(i)[j].current_status_inventory,
     sales |-> InputRows(i)[j].sales]

\* C6 as stated: the time series holds the rows of the group in ascending
\* date order, rows of equal date in their input order
C6_StableDateOrder ==
    \A i \in DOMAIN pc :
        Succeeded(i) =>
            \A p \in 1..Len(Items(i)) :
                LET ts == Items(i)[p].time_series
                    js == RowsOf(i, Items(i)[p].key)
                    Earlier(h, j) ==
                        \/ IsoLess(EntryOf(i, h).status_date, EntryOf(i, j).status_date)
                        \/ EntryOf(i, h).status_date = EntryOf(i, j).status_date /\ h < j
                IN  /\ Len(ts) = Cardinality(js)
                    /\ \A j \in js :
                           ts[Cardinality({h \in js : Earlier(h, j)}) + 1] = EntryOf(i, j)

\* C6 as amended: the time series holds exactly the rows of the group, each
\* once, and no entry's date is earlier than the date of the entry before it
C6_DateOrder ==
    \A i \in DOMAIN pc :
        Succeeded(i) =>
            \A p \in 1..Len(Items(i)) :
                LET ts == Items(i)[p].time_series
                    js == RowsOf(i, Items(i)[p].key)
                IN  /\ Len(ts) = Cardinality(js)
                    /\ \E f \in [1..Len(ts) -> js] :
                           /\ \A a, b \in 1..Len(ts) : a # b => f[a] # f[b]
                           /\ \A q \in 1..Len(ts) : ts[q] = EntryOf(i, f[q])
                    /\ \A q \in 1..(Len(ts) - 1) :
                           ~IsoLess(ts[q + 1].status_date, ts[q].status_date)

\* the rows of a group arrive latest first and leave earliest first
C6_Witness ==
    \E i \in DOMAIN pc :
        /\ Succeeded(i)
        /\ Len(InputRows(i)) = 3
        /\ Len(Items(i)) = 1
        /\ Column(InputRows(i), "status_date") = <<DateNov01, DateNov01, DateDec31>>
        /\ Column(Items(i)[1].time_series, "status_date")
               = <<IsoOf(DateDec31), IsoOf(DateNov01), IsoOf(DateNov01)>>

\* C9: key_name and current_month are those of the row the date sort puts
\* first, a row of the earliest date of the group, which is the row of the
\* first entry of the time series
C9_LabelsOfFirstRow ==
    \A i \in DOMAIN pc :
        Succeeded(i) =>
            \A p \in 1..Len(Items(i)) :
                LET item == Items(i)[p]
                    js == RowsOf(i, item.key)
                IN  \E j \in js :
                        /\ \A h \in js :
                               ~IsoLess(EntryOf(i, h).status_date, EntryOf(i, j).status_date)
                        /\ item.time_series[1] = EntryOf(i, j)
                        /\ item.key_name = InputRows(i)[j].key_name
                        /\ item.current_month = DecimalValue(InputRows(i)[j].current_month)

\* the group's first input row is labelled n1 / 10 and dated later than its
\* second row, labelled n2 / 11: the item reports n2 / 11
C9_Witness ==
    \E i \in DOMAIN pc :
        /\ Succeeded(i)
        /\ Len(Items(i)) = 1
        /\ Len(InputRows(i)) = 2
        /\ InputRows(i)[1].status_date = DateNov01
        /\ InputRows(i)[1].key_name = NameOne
        /\ InputRows(i)[2].status_date = DateDec31
        /\ InputRows(i)[2].key_name = NameTwo
        /\ Items(i)[1].key_name = NameTwo
        /\ Items(i)[1].current_month = 11

-----------------------------------------------------------------------------
(* Errors *)

BadDateAt(i, j) == ~ParsesAsDate(InputRows(i)[j].status_date)
BadMonthAt(i, j) == ~IsDecimal(InputRows(i)[j].current_month)

\* C8 as stated: a date that does not parse or a non-numeric value in a
\* numeric column, in any row, ends the request in an error without items
C8_BadRowFailsRequest ==
    \A i \in DOMAIN pc :
        (Done(i) /\ \E j \in 1..Len(InputRows(i)) : BadDateAt(i, j) \/ BadMonthAt(i, j)) =>
            /\ response[i].status_code = 500
            /\ "items" \notin DOMAIN response[i].body

\* C8 as amended: a date that does not parse, in any row, ends the request
\* in an error; an error response has no items; a non-numeric current_month
\* ends the request in an error only if it is in a row of the earliest date
\* of a group that remains after filtering
C8_BadDateFailsRequest ==
    \A i \in DOMAIN pc :
        Done(i) =>
            /\ (\E j \in 1..Len(InputRows(i)) : BadDateAt(i, j)) =>
                   response[i].status_code = 500
            /\ response[i].status_code = 500 =>
                   "items" \notin DOMAIN response[i].body
            /\ (response[i].status_code = 500
                  /\ \A j \in 1..Len(InputRows(i)) : ~BadDateAt(i, j)) =>
                   \E j \in Remaining(i) :
                       /\ BadMonthAt(i, j)
                       /\ \A h \in RowsOf(i, InputRows(i)[j].key) :
                              ~IsoLess(IsoOf(InputRows(i)[h].status_date),
                                       IsoOf(InputRows(i)[j].status_date))

\* the filter key selects a row that parses, another key's row has a bad
\* date, and the request fails
C8_Witness ==
    \E i \in DOMAIN pc :
        /\ Failed(i)
        /\ Filtered(i)
        /\ \E j \in Remaining(i) : ~BadDateAt(i, j) /\ ~BadMonthAt(i, j)
        /\ \A j \in Remaining(i) : ~BadDateAt(i, j)
        /\ \E j \in 1..Len(InputRows(i)) : j \notin Remaining(i) /\ BadDateAt(i, j)

-----------------------------------------------------------------------------
(* Concurrent invocations *)

\* the responses one invocation on its own gives for a snapshot and a key
Alone(bytes, k) ==
    {InventoryStats(bytes, k, prio) : prio \in TieOrders(ReadCsv(bytes))}

\* C10: a step changes the locals of one invocation only and never the
\* stored CSV, and the response an invocation ends with is one it gives on
\* its own for the snapshot it fetched and its filter key
C10_Isolation ==
    [][/\ blob' = blob
       /\ \A i, j \in DOMAIN pc :
              (i # j /\ <<pc[i], key[i], csv_bytes[i], df[i], response[i]>>
                          # <<pc'[i], key'[i], csv_bytes'[i], df'[i], response'[i]>>)
                  => <<pc[j], key[j], csv_bytes[j], df[j], response[j]>>
                          = <<pc'[j], key'[j], csv_bytes'[j], df'[j], response'[j]>>
       /\ \A i \in DOMAIN pc :
              (pc[i] # "done" /\ pc'[i] = "done") =>
                  /\ csv_bytes'[i] = blob
                  /\ response'[i] \in Alone(csv_bytes'[i], key'[i])]_vars

\* two invocations in flight at once end with different responses
C10_Witness ==
    \E i, j \in DOMAIN pc :
        /\ i # j
        /\ Succeeded(i) /\ Succeeded(j)
        /\ Filtered(i) /\ ~Filtered(j)
        /\ Len(Items(i)) = 1
        /\ Len(Items(j)) = 2

====
